---- MODULE Spec2Model ----
(***************************************************************************)
(* Flash Job Orchestrator of the Cordatus Flash Utility                    *)
(* (src-tauri/src/main.rs): the job registry (flash_progress,              *)
(* active_flashes), the caller commands start_flash_process,               *)
(* get_flash_progress and cancel_flash_process, the background task        *)
(* execute_flash_process with its error handler, and the progress parser   *)
(* parse_flash_output.                                                     *)
(*                                                                         *)
(* Every lock region of the source is one atomic step; every .await and    *)
(* every gap between two lock regions is a point where other tasks run.    *)
(* FlashProgress.progress is an f32 percentage in the source; the model    *)
(* keeps it in tenths of a percent (12.6 % is 126).                        *)
(***************************************************************************)
EXTENDS Integers, Sequences, FiniteSets, TLC

(***************************************************************************)
(* Bounds of the model.                                                    *)
(***************************************************************************)
\* number of job ids generated (start_flash_process calls)
MaxJobs == 2
\* number of external inputs in a run: calls of start_flash_process and
\* cancel_flash_process, output lines of the subprocesses, and environment
\* failures (emit, script path, spawn, read, wait, kill)
MaxInputs == 3

\* number of segments of an output line given to the parser on its own
MaxSegments == 4

\* number of USB devices the host lists in one enumeration
MaxAttached == 3

\* ids generated by Uuid::new_v4 are 1..MaxJobs; 0 is an id no call generates
JobIds == 1..MaxJobs
AnyIds == 0..MaxJobs

(***************************************************************************)
(* FlashProgress and FlashCommand values.                                  *)
(***************************************************************************)
\* Option<T>: None is <<>>, Some(v) is <<v>>
None == <<>>
Some(v) == <<v>>

FlashProgress(stage, progress, message, details, start_time, eta) ==
    [stage |-> stage, progress |-> progress, message |-> message,
     details |-> details, start_time |-> start_time,
     estimated_time_remaining |-> eta]

\* the request of the spec's scenario
Commands ==
    {[product |-> "Jetson", device_module |-> "Orin Nano",
      jetpack_version |-> "36.4.4", storage_device |-> "nvme",
      keep_files |-> FALSE, user_name |-> "alice"]}

\* i32 to text, as format!("{}", code) prints it
CodeStr(c) ==
    CASE c = 0 -> "0"
      [] c = 1 -> "1"
      [] c = 2 -> "2"
      [] c = -1 -> "-1"
      [] OTHER -> "?"

PreparingProgress ==
    FlashProgress("preparing", 0, <<"Preparing flash process...">>, None,
                  Some("now"), None)

DownloadingProgress(command) ==
    FlashProgress("downloading", 100, <<"Downloading JetPack files...">>,
                  Some(<<"Downloading ", command.jetpack_version, " for ",
                         command.device_module>>),
                  None, Some(300))

CompleteProgress ==
    FlashProgress("complete", 1000,
                  <<"Flash process completed successfully!">>,
                  Some(<<"Device is ready to use">>), None, None)

\* e is the error's text (e.to_string()), a sequence of pieces
ErrorProgress(e) ==
    FlashProgress("error", 0, <<"Flash process failed">>, Some(e), None, None)

EmitError == <<"Failed to emit progress update">>
ScriptNotFound == <<"flash_cordatus.sh script not found">>
SpawnError == <<"Failed to start flash process">>
ProcessNotFound == <<"Flash process not found">>
WaitError == <<"Flash process failed">>
ExitError(code) == <<"Flash process exited with error code: ", CodeStr(code)>>

(***************************************************************************)
(* parse_flash_output.  A line is a sequence of tokens (strings): the      *)
(* stage words, "%", runs of digits and other text.                        *)
(***************************************************************************)
\* runs of ASCII digits that occur in the modelled output, with their value
AsciiDigits == {"0", "42", "50", "100", "150"}
\* a run of non-ASCII decimal digits: \d matches it, parse::<f32>() rejects it
UnicodeDigits == {"arabic-indic-42"}

\* the regex class \d+ on one token
IsDigits(tok) == tok \in AsciiDigits \cup UnicodeDigits

\* caps[1].parse::<f32>(): Ok(value) or Err
ParseF32(tok) ==
    CASE tok = "0" -> Some(0)
      [] tok = "42" -> Some(42)
      [] tok = "50" -> Some(50)
      [] tok = "100" -> Some(100)
      [] tok = "150" -> Some(150)
      [] OTHER -> None

\* Regex  word.*?(\d+)%  : the captures of the leftmost match, lazily the
\* first run of digits followed by "%" after the first occurrence of word
Captures(word, line) ==
    LET starts == {i \in 1..Len(line) : line[i] = word}
    IN  IF starts = {} THEN None
        ELSE LET i == CHOOSE k \in starts : \A m \in starts : k <= m
                 hits == {j \in (i+1)..(Len(line)-1) :
                             IsDigits(line[j]) /\ line[j+1] = "%"}
             IN  IF hits = {} THEN None
                 ELSE Some(line[CHOOSE j \in hits : \A m \in hits : j <= m])

\* (x as u64) of a float given as a fraction num/den: truncates, saturates at 0
AsU64(num, den) == IF num <= 0 THEN 0 ELSE num \div den

parse_flash_output(line) ==
    LET d == Captures("Downloading", line)
        f == Captures("Flashing", line)
        v == Captures("Verifying", line)
        dv == IF d = None THEN None ELSE ParseF32(d[1])
        fv == IF f = None THEN None ELSE ParseF32(f[1])
        vv == IF v = None THEN None ELSE ParseF32(v[1])
    IN  IF dv # None
        THEN Some(FlashProgress("downloading", 3 * dv[1], line, None, None,
                                Some(AsU64((100 - dv[1]) * 2, 1))))
        ELSE IF fv # None
        THEN Some(FlashProgress("flashing", 300 + 6 * fv[1], line, None, None,
                                Some(AsU64((100 - fv[1]) * 3, 2))))
        ELSE IF vv # None
        THEN Some(FlashProgress("verifying", 900 + vv[1], line, None, None,
                                Some(AsU64((100 - vv[1]) * 1, 2))))
        ELSE None

\* the lines the modelled subprocess prints
OutputLines ==
    {<<"Downloading", "package", "(", "42", "%", ")">>,
     <<"Flashing", "partition", "(", "50", "%", ")">>,
     <<"Verifying", "100", "%">>,
     <<"Flashing", "150", "%">>,
     <<"Writing", "partition", "table">>}

(***************************************************************************)
(* State.                                                                  *)
(***************************************************************************)
VARIABLES
    flash_progress,   \* AppState.flash_progress: job id -> FlashProgress
    active_flashes,   \* AppState.active_flashes: job id -> Child (by job id)
    events,           \* per job, the events window.emit accepted, in order
    written,          \* per job, the snapshots inserted into flash_progress
    generated,        \* number of job ids generated so far
    request,          \* per job, the FlashCommand of its start_flash_process
    startPc,          \* per job, position of its start_flash_process call
    taskPc,           \* per job, position of its background task
    taskErr,          \* per job, the error its execute_flash_process returned
    proc,             \* per job, its subprocess: none, running, closed, exited
    exit_status,      \* per job, the ExitStatus of its subprocess
    output,           \* per job, the lines next_line() has yielded, in order
    registered,       \* per job, whether its Child was ever put in active_flashes
    cancelPc,         \* per id, position of the cancel_flash_process call on it
    cancelCtx,        \* per id, what the running cancel call saw when it began
    cancelled,        \* per id, what the returned cancel calls were
    connected_devices, \* AppState.connected_devices: device id -> JetsonDevice
    listed,           \* what rusb::devices() gave the last detect_usb_devices
    detected,         \* what the last detect_usb_devices call returned
    holder,           \* per registry Mutex, the thread holding its guard
    threadPc,         \* per thread, its position between lock operations
    inputs            \* number of external inputs so far

vars == <<flash_progress, active_flashes, events, written, generated, request,
          startPc, taskPc, taskErr, proc, exit_status, output, registered,
          cancelPc, cancelCtx, cancelled, connected_devices, listed,
          detected, holder, threadPc, inputs>>

registry == <<flash_progress, active_flashes>>
startVars == <<generated, request, startPc>>
taskVars == <<taskPc, taskErr, registered>>
procVars == <<proc, exit_status, output>>
cancelVars == <<cancelPc, cancelCtx, cancelled>>
deviceVars == <<connected_devices, listed, detected>>
lockVars == <<holder, threadPc>>

\* the Mutex fields of AppState that guard the two job maps
Mutexes == {"flash_progress", "active_flashes"}

\* the threads of control that lock them: per job its start_flash_process call,
\* its spawned task and a cancel_flash_process call, and a get_flash_progress
\* call
Threads ==
    ({"start_flash_process", "execute_flash_process", "cancel_flash_process"}
        \X JobIds) \cup {<<"get_flash_progress", 0>>}

\* a Mutex nobody holds
Free == <<>>

\* HashMap::insert, HashMap::remove and HashMap::get(..).cloned()
Insert(map, k, v) == [x \in DOMAIN map \cup {k} |-> IF x = k THEN v ELSE map[x]]
Remove(map, k) == [x \in DOMAIN map \ {k} |-> map[x]]
Get(map, k) == IF k \in DOMAIN map THEN Some(map[k]) ELSE None

\* ExitStatus values: an exit code, death by a signal, or a status wait() fails
\* to obtain
NoStatus == <<"none", 0>>
Exited(code) == <<"code", code>>
Signalled == <<"signal", 9>>
StatusLost == <<"lost", 0>>
ExitCodes == {0, 1}

\* (mutant) the test of the status inverted
Success_inverted(status) == status[1] = "code" /\ status[2] # 0

\* ExitStatus::success() and ExitStatus::code().unwrap_or(-1)
Success(status) == status = Exited(0)
CodeOr(status) == IF status[1] = "code" THEN status[2] ELSE -1

NoCtx == [flashing |-> FALSE, after_start |-> FALSE, handle |-> FALSE]
NoCancel ==
    [count |-> 0, flashing |-> FALSE, after_start |-> FALSE, took |-> FALSE]

Init ==
    /\ flash_progress = <<>>
    /\ active_flashes = <<>>
    /\ events = [j \in JobIds |-> <<>>]
    /\ written = [j \in JobIds |-> <<>>]
    /\ generated = 0
    /\ request = [j \in JobIds |-> None]
    /\ startPc = [j \in JobIds |-> "none"]
    /\ taskPc = [j \in JobIds |-> "none"]
    /\ taskErr = [j \in JobIds |-> None]
    /\ proc = [j \in JobIds |-> "none"]
    /\ exit_status = [j \in JobIds |-> NoStatus]
    /\ output = [j \in JobIds |-> <<>>]
    /\ registered = [j \in JobIds |-> FALSE]
    /\ cancelPc = [i \in AnyIds |-> "idle"]
    /\ cancelCtx = [i \in AnyIds |-> NoCtx]
    /\ cancelled = [i \in AnyIds |-> NoCancel]
    /\ connected_devices = <<>>
    /\ listed = None
    /\ detected = None
    /\ holder = [m \in Mutexes |-> Free]
    /\ threadPc = [t \in Threads |-> 1]
    /\ inputs = 0

\* the payloads given to window.emit
ProgressEvent(id) ==
    [name |-> "flash-progress", flash_id |-> id, progress |-> None]
UpdateEvent(id, progress) ==
    [name |-> "flash-progress-update", flash_id |-> id,
     progress |-> Some(progress)]

\* n more external inputs fit the run
Fits(n) == inputs + n <= MaxInputs

(***************************************************************************)
(* start_flash_process (submit).  The emit and tokio::spawn touch no       *)
(* registry state, so they are taken in one step with the insert.          *)
(***************************************************************************)
\* Uuid::new_v4; the "preparing" snapshot is inserted; the emit's Err returns
\* from the command before the background task is spawned
StartFlash(command) ==
    /\ generated < MaxJobs
    /\ Fits(1)
    /\ LET id == generated + 1
       IN  /\ generated' = id
           /\ request' = [request EXCEPT ![id] = Some(command)]
           /\ flash_progress' = Insert(flash_progress, id, PreparingProgress)
           /\ written' = [written EXCEPT ![id] = Append(@, PreparingProgress)]
           /\ \/ /\ events' = [events EXCEPT ![id] = Append(@, ProgressEvent(id))]
                 /\ startPc' = [startPc EXCEPT ![id] = "return"]
                 /\ taskPc' = [taskPc EXCEPT ![id] = "start"]
                 /\ inputs' = inputs + 1
              \/ /\ Fits(2)
                 /\ inputs' = inputs + 2
                 /\ startPc' = [startPc EXCEPT ![id] = "failed"]
                 /\ UNCHANGED <<events, taskPc>>
    /\ UNCHANGED <<deviceVars, lockVars>>
    /\ UNCHANGED <<active_flashes, taskErr, registered, procVars,
                   cancelVars>>

\* (mutant) the call awaits the background task before it returns
StartReturn_joined(id) ==
    /\ startPc[id] = "return"
    /\ taskPc[id] = "done"
    /\ startPc' = [startPc EXCEPT ![id] = "returned"]
    /\ UNCHANGED <<deviceVars, lockVars>>
    /\ UNCHANGED <<registry, events, written, generated, request, taskVars,
                   procVars, cancelVars, inputs>>

\* Ok(flash_id): the caller has the id
StartReturn(id) ==
    /\ startPc[id] = "return"
    /\ startPc' = [startPc EXCEPT ![id] = "returned"]
    /\ UNCHANGED <<deviceVars, lockVars>>
    /\ UNCHANGED <<registry, events, written, generated, request, taskVars,
                   procVars, cancelVars, inputs>>

(***************************************************************************)
(* update_flash_progress, called by the background task: the insert under  *)
(* the lock, then the emit, whose Err is returned with ? by the caller.    *)
(* ok is the task's position after Ok(()); used is the number of external  *)
(* inputs the calling step has consumed itself.                            *)
(***************************************************************************)
\* (mutant) the emit comes first and its Err returns before the insert
update_flash_progress_emit_first(id, progress, ok, used) ==
    \/ /\ flash_progress' = Insert(flash_progress, id, progress)
       /\ written' = [written EXCEPT ![id] = Append(@, progress)]
       /\ events' = [events EXCEPT ![id] = Append(@, UpdateEvent(id, progress))]
       /\ taskPc' = [taskPc EXCEPT ![id] = ok]
       /\ inputs' = inputs + used
       /\ UNCHANGED taskErr
    \/ /\ Fits(used + 1)
       /\ inputs' = inputs + used + 1
       /\ taskPc' = [taskPc EXCEPT ![id] = "failed"]
       /\ taskErr' = [taskErr EXCEPT ![id] = Some(EmitError)]
       /\ UNCHANGED <<flash_progress, written, events>>

update_flash_progress(id, progress, ok, used) ==
    /\ flash_progress' = Insert(flash_progress, id, progress)
    /\ written' = [written EXCEPT ![id] = Append(@, progress)]
    /\ \/ /\ events' = [events EXCEPT ![id] = Append(@, UpdateEvent(id, progress))]
          /\ taskPc' = [taskPc EXCEPT ![id] = ok]
          /\ inputs' = inputs + used
          /\ UNCHANGED taskErr
       \/ /\ Fits(used + 1)
          /\ inputs' = inputs + used + 1
          /\ taskPc' = [taskPc EXCEPT ![id] = "failed"]
          /\ taskErr' = [taskErr EXCEPT ![id] = Some(EmitError)]
          /\ UNCHANGED events

(***************************************************************************)
(* execute_flash_process, run by the background task of job id.            *)
(***************************************************************************)
\* update_flash_progress(.. "downloading", 10.0 ..).await?
ExecDownloading(id) ==
    /\ taskPc[id] = "start"
    /\ update_flash_progress(id, DownloadingProgress(request[id][1]), "spawn", 0)
    /\ UNCHANGED <<deviceVars, lockVars>>
    /\ UNCHANGED <<active_flashes, startVars, registered, procVars,
                   cancelVars>>

\* get_script_path().await?, get_working_directory().await? (which has no
\* Err result) and cmd.spawn().context("Failed to start flash process")?
ExecSpawn(id) ==
    /\ taskPc[id] = "spawn"
    /\ \/ /\ proc' = [proc EXCEPT ![id] = "running"]
          /\ taskPc' = [taskPc EXCEPT ![id] = "register"]
          /\ UNCHANGED <<taskErr, inputs>>
       \/ /\ Fits(1)
          /\ inputs' = inputs + 1
          /\ taskPc' = [taskPc EXCEPT ![id] = "failed"]
          /\ \E e \in {ScriptNotFound, SpawnError} :
                taskErr' = [taskErr EXCEPT ![id] = Some(e)]
          /\ UNCHANGED proc
    /\ UNCHANGED <<deviceVars, lockVars>>
    /\ UNCHANGED <<registry, events, written, startVars, registered,
                   exit_status, output, cancelVars>>

\* active_flashes.insert(flash_id.clone(), child)
ExecRegister(id) ==
    /\ taskPc[id] = "register"
    /\ active_flashes' = Insert(active_flashes, id, id)
    /\ registered' = [registered EXCEPT ![id] = TRUE]
    /\ taskPc' = [taskPc EXCEPT ![id] = "read"]
    /\ UNCHANGED <<deviceVars, lockVars>>
    /\ UNCHANGED <<flash_progress, events, written, startVars, taskErr,
                   procVars, cancelVars, inputs>>

\* (mutant) a line the parser does not match is stored as a message
ExecReadLine_echo(id, line) ==
    /\ taskPc[id] = "read"
    /\ Fits(1)
    /\ output' = [output EXCEPT ![id] = Append(@, line)]
    /\ LET progress_info == parse_flash_output(line)
       IN  IF progress_info # None
           THEN update_flash_progress(id, progress_info[1], "read", 1)
           ELSE update_flash_progress(
                    id, FlashProgress("downloading", 0, line, None, None, None),
                    "read", 1)
    /\ UNCHANGED <<deviceVars, lockVars>>
    /\ UNCHANGED <<active_flashes, startVars, registered, proc, exit_status,
                   cancelVars>>

\* lines.next_line().await yields Ok(Some(line)), a line the subprocess wrote
\* before it closed its output; a line the parser matches goes to
\* update_flash_progress(..).await?
ExecReadLine(id, line) ==
    /\ taskPc[id] = "read"
    /\ Fits(1)
    /\ output' = [output EXCEPT ![id] = Append(@, line)]
    /\ LET progress_info == parse_flash_output(line)
       IN  IF progress_info # None
           THEN update_flash_progress(id, progress_info[1], "read", 1)
           ELSE /\ inputs' = inputs + 1
                /\ UNCHANGED <<flash_progress, written, events, taskPc, taskErr>>
    /\ UNCHANGED <<deviceVars, lockVars>>
    /\ UNCHANGED <<active_flashes, startVars, registered, proc, exit_status,
                   cancelVars>>

\* the while-let ends on Ok(None), once the subprocess closed its output, or
\* on a read error; then
\* active_flashes.remove(&flash_id).context("Flash process not found")?
ExecTake(id) ==
    /\ taskPc[id] = "read"
    /\ \/ /\ proc[id] \in {"closed", "exited"}
          /\ UNCHANGED inputs
       \/ /\ Fits(1)
          /\ inputs' = inputs + 1
    /\ active_flashes' = Remove(active_flashes, id)
    /\ IF id \in DOMAIN active_flashes
       THEN /\ taskPc' = [taskPc EXCEPT ![id] = "wait"]
            /\ UNCHANGED taskErr
       ELSE /\ taskPc' = [taskPc EXCEPT ![id] = "failed"]
            /\ taskErr' = [taskErr EXCEPT ![id] = Some(ProcessNotFound)]
    /\ UNCHANGED <<deviceVars, lockVars>>
    /\ UNCHANGED <<flash_progress, events, written, startVars, registered,
                   procVars, cancelVars>>

\* child.wait().await.context("Flash process failed")? and the test of the
\* status: success goes to update_flash_progress(.. "complete" ..).await?,
\* anything else returns the error with the exit code
ExecWait(id) ==
    /\ taskPc[id] = "wait"
    /\ proc[id] = "exited"
    /\ IF exit_status[id] = StatusLost
       THEN /\ taskPc' = [taskPc EXCEPT ![id] = "failed"]
            /\ taskErr' = [taskErr EXCEPT ![id] = Some(WaitError)]
            /\ UNCHANGED <<flash_progress, written, events, inputs>>
       ELSE IF Success(exit_status[id])
       THEN update_flash_progress(id, CompleteProgress, "cleanup", 0)
       ELSE /\ taskPc' = [taskPc EXCEPT ![id] = "failed"]
            /\ taskErr' = [taskErr EXCEPT
                             ![id] = Some(ExitError(CodeOr(exit_status[id])))]
            /\ UNCHANGED <<flash_progress, written, events, inputs>>
    /\ UNCHANGED <<deviceVars, lockVars>>
    /\ UNCHANGED <<active_flashes, startVars, registered, procVars,
                   cancelVars>>

\* the final active_flashes.remove(&flash_id), then Ok(())
ExecCleanup(id) ==
    /\ taskPc[id] = "cleanup"
    /\ active_flashes' = Remove(active_flashes, id)
    /\ taskPc' = [taskPc EXCEPT ![id] = "done"]
    /\ UNCHANGED <<deviceVars, lockVars>>
    /\ UNCHANGED <<flash_progress, events, written, startVars, taskErr,
                   registered, procVars, cancelVars, inputs>>

\* (mutant) the Err(e) arm only logs the error
TaskError_logged(id) ==
    /\ taskPc[id] = "failed"
    /\ taskPc' = [taskPc EXCEPT ![id] = "done"]
    /\ UNCHANGED <<deviceVars, lockVars>>
    /\ UNCHANGED <<registry, events, written, startVars, taskErr, registered,
                   procVars, cancelVars, inputs>>

\* the Err(e) arm of the spawned task: the "error" snapshot is inserted and
\* no event is emitted
TaskError(id) ==
    /\ taskPc[id] = "failed"
    /\ flash_progress' = Insert(flash_progress, id, ErrorProgress(taskErr[id][1]))
    /\ written' = [written EXCEPT ![id] = Append(@, ErrorProgress(taskErr[id][1]))]
    /\ taskPc' = [taskPc EXCEPT ![id] = "done"]
    /\ UNCHANGED <<deviceVars, lockVars>>
    /\ UNCHANGED <<active_flashes, events, startVars, taskErr, registered,
                   procVars, cancelVars, inputs>>

(***************************************************************************)
(* The subprocess (the flashing tool), as far as the orchestrator sees it. *)
(***************************************************************************)
Alive(id) == proc[id] \in {"running", "closed"}

\* the tool closes its standard output
ProcClose(id) ==
    /\ proc[id] = "running"
    /\ proc' = [proc EXCEPT ![id] = "closed"]
    /\ UNCHANGED <<deviceVars, lockVars>>
    /\ UNCHANGED <<registry, events, written, startVars, taskVars,
                   exit_status, output, cancelVars, inputs>>

\* the tool exits with a code or dies by a signal, or (a failure) its status
\* cannot be obtained by wait()
ProcExit(id) ==
    /\ Alive(id)
    /\ proc' = [proc EXCEPT ![id] = "exited"]
    /\ \/ /\ \E status \in {Exited(c) : c \in ExitCodes} \cup {Signalled} :
                exit_status' = [exit_status EXCEPT ![id] = status]
          /\ UNCHANGED inputs
       \/ /\ Fits(1)
          /\ inputs' = inputs + 1
          /\ exit_status' = [exit_status EXCEPT ![id] = StatusLost]
    /\ UNCHANGED <<deviceVars, lockVars>>
    /\ UNCHANGED <<registry, events, written, startVars, taskVars, output,
                   cancelVars>>

(***************************************************************************)
(* cancel_flash_process(flash_id) and get_flash_progress(flash_id).  A     *)
(* caller passes an id generated so far or the id 0 that is never          *)
(* generated.  Cancel calls on one id follow one another.                  *)
(***************************************************************************)
CallerIds == {0} \cup (1..generated)

\* active_flashes.remove(&flash_id) under the lock
CancelTake(id) ==
    /\ id \in CallerIds
    /\ cancelPc[id] = "idle"
    /\ Fits(1)
    /\ inputs' = inputs + 1
    /\ active_flashes' = Remove(active_flashes, id)
    /\ cancelCtx' = [cancelCtx EXCEPT ![id] =
          [flashing |-> /\ id \in DOMAIN flash_progress
                        /\ flash_progress[id].stage = "flashing"
                        /\ id \in DOMAIN active_flashes
                        /\ Alive(id),
           after_start |-> id \in JobIds /\ startPc[id] = "returned",
           handle |-> id \in DOMAIN active_flashes]]
    /\ cancelPc' = [cancelPc EXCEPT
                      ![id] = IF id \in DOMAIN active_flashes
                              THEN "kill" ELSE "remove"]
    /\ UNCHANGED <<deviceVars, lockVars>>
    /\ UNCHANGED <<flash_progress, events, written, startVars, taskVars,
                   procVars, cancelled>>

\* child.kill().await: Ok ends a live subprocess; an Err is only logged
CancelKill(id) ==
    /\ cancelPc[id] = "kill"
    /\ cancelPc' = [cancelPc EXCEPT ![id] = "remove"]
    /\ \/ /\ IF Alive(id)
             THEN /\ proc' = [proc EXCEPT ![id] = "exited"]
                  /\ exit_status' = [exit_status EXCEPT ![id] = Signalled]
                  /\ UNCHANGED output
             ELSE UNCHANGED procVars
          /\ UNCHANGED inputs
       \/ /\ Fits(1)
          /\ inputs' = inputs + 1
          /\ UNCHANGED procVars
    /\ UNCHANGED <<deviceVars, lockVars>>
    /\ UNCHANGED <<registry, events, written, startVars, taskVars, cancelCtx,
                   cancelled>>

\* (mutant) the snapshot map is cleared
CancelRemove_clear(id) ==
    /\ cancelPc[id] = "remove"
    /\ flash_progress' = <<>>
    /\ cancelled' = [cancelled EXCEPT ![id] =
          [count |-> @.count + 1,
           flashing |-> @.flashing \/ cancelCtx[id].flashing,
           after_start |-> @.after_start \/ cancelCtx[id].after_start,
           took |-> @.took \/ cancelCtx[id].handle]]
    /\ cancelCtx' = [cancelCtx EXCEPT ![id] = NoCtx]
    /\ cancelPc' = [cancelPc EXCEPT ![id] = "idle"]
    /\ UNCHANGED <<deviceVars, lockVars>>
    /\ UNCHANGED <<active_flashes, events, written, startVars, taskVars,
                   procVars, inputs>>

\* flash_progress.remove(&flash_id) under the lock, then Ok(())
CancelRemove(id) ==
    /\ cancelPc[id] = "remove"
    /\ flash_progress' = Remove(flash_progress, id)
    /\ cancelled' = [cancelled EXCEPT ![id] =
          [count |-> @.count + 1,
           flashing |-> @.flashing \/ cancelCtx[id].flashing,
           after_start |-> @.after_start \/ cancelCtx[id].after_start,
           took |-> @.took \/ cancelCtx[id].handle]]
    /\ cancelCtx' = [cancelCtx EXCEPT ![id] = NoCtx]
    /\ cancelPc' = [cancelPc EXCEPT ![id] = "idle"]
    /\ UNCHANGED <<deviceVars, lockVars>>
    /\ UNCHANGED <<active_flashes, events, written, startVars, taskVars,
                   procVars, inputs>>

\* Ok(flash_progress.get(&flash_id).cloned()): the value returned
QueryResult(id) == Get(flash_progress, id)

\* (mutant) the read done with HashMap::remove
get_flash_progress_take(id) ==
    /\ id \in CallerIds
    /\ flash_progress' = Remove(flash_progress, id)
    /\ UNCHANGED <<deviceVars, lockVars>>
    /\ UNCHANGED <<active_flashes, events, written, startVars, taskVars,
                   procVars, cancelVars, inputs>>

\* get_flash_progress(flash_id): a read under the lock
get_flash_progress(id) ==
    /\ id \in CallerIds
    /\ UNCHANGED inputs
    /\ UNCHANGED <<deviceVars, lockVars>>
    /\ UNCHANGED <<registry, events, written, startVars, taskVars, procVars,
                   cancelVars>>

(***************************************************************************)
(* The orchestrator: callers, background tasks and subprocesses run        *)
(* concurrently.                                                           *)
(***************************************************************************)
Next ==
    \/ \E command \in Commands : StartFlash(command)
    \/ \E id \in JobIds : StartReturn(id)
    \/ \E id \in JobIds : ExecDownloading(id)
    \/ \E id \in JobIds : ExecSpawn(id)
    \/ \E id \in JobIds : ExecRegister(id)
    \/ \E id \in JobIds : \E line \in OutputLines : ExecReadLine(id, line)
    \/ \E id \in JobIds : ExecTake(id)
    \/ \E id \in JobIds : ExecWait(id)
    \/ \E id \in JobIds : ExecCleanup(id)
    \/ \E id \in JobIds : TaskError(id)
    \/ \E id \in JobIds : ProcClose(id)
    \/ \E id \in JobIds : ProcExit(id)
    \/ \E id \in AnyIds : CancelTake(id)
    \/ \E id \in AnyIds : CancelKill(id)
    \/ \E id \in AnyIds : CancelRemove(id)
    \/ \E id \in AnyIds : get_flash_progress(id)

Spec == Init /\ [][Next]_vars

(***************************************************************************)
(* Progress.  The tokio runtime runs every spawned task and every command  *)
(* that has begun until it ends, so each of their steps is taken once it   *)
(* stays possible; the subprocess, once spawned, closes its output and     *)
(* exits.  Callers are not obliged to call anything, and the subprocess is *)
(* not obliged to print.                                                   *)
(***************************************************************************)
TaskStep(id) ==
    \/ ExecDownloading(id)
    \/ ExecSpawn(id)
    \/ ExecRegister(id)
    \/ ExecTake(id)
    \/ ExecWait(id)
    \/ ExecCleanup(id)
    \/ TaskError(id)

CommandStep(id) ==
    \/ CancelKill(id)
    \/ CancelRemove(id)
    \/ (id \in JobIds /\ StartReturn(id))

Fairness ==
    /\ \A id \in JobIds : WF_vars(TaskStep(id))
    /\ \A id \in JobIds : WF_vars(ProcClose(id))
    /\ \A id \in JobIds : WF_vars(ProcExit(id))
    /\ \A id \in AnyIds : WF_vars(CommandStep(id))

LiveSpec == Init /\ [][Next]_vars /\ Fairness

(***************************************************************************)
(* The parser on its own: job 1 is streaming (its task is in the read      *)
(* loop), job 2 has been submitted, and next_line() yields one line, any   *)
(* line made of at most MaxSegments segments.                              *)
(***************************************************************************)
Segments ==
    {<<"Downloading">>, <<"Flashing">>, <<"Verifying">>,
     <<"42", "%">>, <<"50", "%">>, <<"150", "%">>, <<"arabic-indic-42", "%">>,
     <<"42">>, <<"partition">>}

RECURSIVE LinesOf(_)
LinesOf(n) ==
    IF n = 0 THEN {<<>>}
    ELSE LET shorter == LinesOf(n - 1)
         IN  shorter \cup {l \o seg : l \in shorter, seg \in Segments}

ParserLines == LinesOf(MaxSegments)

ParserInit ==
    \E command \in Commands :
        /\ flash_progress = (1 :> DownloadingProgress(command)
                             @@ 2 :> PreparingProgress)
        /\ active_flashes = (1 :> 1)
        /\ events = [j \in JobIds |->
              IF j = 1 THEN <<ProgressEvent(1),
                              UpdateEvent(1, DownloadingProgress(command))>>
              ELSE IF j = 2 THEN <<ProgressEvent(2)>> ELSE <<>>]
        /\ written = [j \in JobIds |->
              IF j = 1 THEN <<PreparingProgress, DownloadingProgress(command)>>
              ELSE IF j = 2 THEN <<PreparingProgress>> ELSE <<>>]
        /\ generated = 2
        /\ request = [j \in JobIds |-> IF j <= 2 THEN Some(command) ELSE None]
        /\ startPc = [j \in JobIds |-> IF j <= 2 THEN "returned" ELSE "none"]
        /\ taskPc = [j \in JobIds |->
              IF j = 1 THEN "read" ELSE IF j = 2 THEN "start" ELSE "none"]
        /\ taskErr = [j \in JobIds |-> None]
        /\ proc = [j \in JobIds |-> IF j = 1 THEN "running" ELSE "none"]
        /\ exit_status = [j \in JobIds |-> NoStatus]
        /\ output = [j \in JobIds |-> <<>>]
        /\ registered = [j \in JobIds |-> j = 1]
        /\ cancelPc = [i \in AnyIds |-> "idle"]
        /\ cancelCtx = [i \in AnyIds |-> NoCtx]
        /\ cancelled = [i \in AnyIds |-> NoCancel]
        /\ connected_devices = <<>>
        /\ listed = None
        /\ detected = None
        /\ holder = [m \in Mutexes |-> Free]
        /\ threadPc = [t \in Threads |-> 1]
        /\ inputs = 2

\* one pass of the read loop of job 1
ParseLine(line) == ExecReadLine(1, line)

\* the first line of job 1 is read
ParserNext ==
    /\ output[1] = <<>>
    /\ \E line \in ParserLines : ParseLine(line)

ParserSpec == ParserInit /\ [][ParserNext]_vars

(***************************************************************************)
(* detect_usb_devices.  The command shares no state with the flash jobs:   *)
(* it alone uses connected_devices.  A USB device, as rusb shows it, is a  *)
(* record of its bus number and address, whether its descriptor can be     *)
(* read, its vendor and product id, and whether check_recovery_mode finds  *)
(* the recovery interface (a failed inspection counts as not found).       *)
(* Ids are decimal: 0x0955 is 2389.  The fields supported_l4t and          *)
(* storage_options of JetsonDevice, lists looked up from the module name,  *)
(* are left out.                                                           *)
(***************************************************************************)
jetson_vendor_id == 2389

\* (product id, product, module), in the order of the source: 0x7c18, 0x7e19,
\* 0x7f21, 0x7019, 0x7e19, 0x7f21
jetson_products ==
    << <<31768, "AGX Orin", "AGX Orin">>,
       <<32281, "Orin NX", "Orin NX">>,
       <<32545, "Orin Nano", "Orin Nano">>,
       <<28697, "AGX Xavier", "AGX Xavier">>,
       <<32281, "Xavier NX", "Xavier NX">>,
       <<32545, "Nano", "Nano - 4GB">> >>

\* jetson_products.iter().find(|(pid, _, _)| *pid == product_id)
FindProduct(product_id) ==
    LET hits == {i \in DOMAIN jetson_products :
                    jetson_products[i][1] = product_id}
    IN  IF hits = {} THEN None
        ELSE Some(jetson_products[CHOOSE i \in hits : \A k \in hits : i <= k])

get_board_id_from_module(module) ==
    CASE module = "AGX Orin" -> "3701-0000"
      [] module = "Orin NX" -> "3767-0000"
      [] module = "Orin Nano" -> "3767-0003"
      [] module = "AGX Xavier" -> "2888-0001"
      [] module = "Xavier NX" -> "3668-0000"
      [] module = "Nano - 4GB" -> "3448-0002"
      [] OTHER -> "0000-0000"

\* format!("jetson-{:04x}-{:03}-{:03}", product_id, bus_number, address)
DeviceId(dev) == <<"jetson", dev.product_id, dev.bus_number, dev.address>>

JetsonDevice(dev, entry) ==
    [id |-> DeviceId(dev),
     vendor |-> "NVIDIA",
     product |-> entry[2],
     module |-> entry[3],
     board_id |-> get_board_id_from_module(entry[3]),
     is_connected |-> TRUE,
     usb_info |-> Some([vendor_id |-> dev.vendor_id,
                        product_id |-> dev.product_id,
                        device_path |-> <<"/dev/bus/usb", dev.bus_number,
                                          dev.address>>,
                        bus_number |-> dev.bus_number,
                        device_address |-> dev.address,
                        is_recovery_mode |-> dev.recovery])]

UsbDevice(bus, address, descriptor, vendor, product, recovery) ==
    [bus_number |-> bus, address |-> address, descriptor |-> descriptor,
     vendor_id |-> vendor, product_id |-> product, recovery |-> recovery]

\* the devices the host can have attached: Jetsons in and out of recovery
\* mode on three ports, and on a fourth port a device of another vendor
\* (0x046d), an NVIDIA device that is no known Jetson (0x7000) and a device
\* whose descriptor cannot be read
UsbDevices ==
    {UsbDevice(1, 2, TRUE, jetson_vendor_id, 32545, r) : r \in BOOLEAN}
    \cup {UsbDevice(1, 3, TRUE, jetson_vendor_id, 31768, r) : r \in BOOLEAN}
    \cup {UsbDevice(2, 2, TRUE, jetson_vendor_id, 32281, r) : r \in BOOLEAN}
    \cup {UsbDevice(2, 3, TRUE, 1133, 32545, FALSE),
          UsbDevice(2, 3, TRUE, jetson_vendor_id, 28672, FALSE),
          UsbDevice(2, 3, FALSE, jetson_vendor_id, 32545, FALSE)}

Port(dev) == <<dev.bus_number, dev.address>>

\* what rusb::devices() can list: at most MaxAttached devices on different
\* ports, in the host's order
RECURSIVE ListsOf(_)
ListsOf(n) ==
    IF n = 0 THEN {<<>>}
    ELSE LET shorter == ListsOf(n - 1)
         IN  shorter \cup
             {Append(l, dev) : l \in shorter,
                               dev \in UsbDevices}

DeviceLists ==
    {l \in ListsOf(MaxAttached) :
        \A i, k \in DOMAIN l : i # k => Port(l[i]) # Port(l[k])}

\* the errors of rusb::devices()
UsbErrors == {"Access denied", "No such device"}

\* the loop over device_list.iter(): the Jetsons among list, in its order
RECURSIVE FoundIn(_)
FoundIn(list) ==
    IF list = <<>> THEN <<>>
    ELSE LET dev == Head(list)
             entry == FindProduct(dev.product_id)
         IN  (IF /\ dev.descriptor
                 /\ dev.vendor_id = jetson_vendor_id
                 /\ entry # None
              THEN <<JetsonDevice(dev, entry[1])>> ELSE <<>>)
             \o FoundIn(Tail(list))

\* connected_devices.insert(device.id.clone(), device.clone()) for each device
RECURSIVE InsertAll(_, _)
InsertAll(map, devices) ==
    IF devices = <<>> THEN map
    ELSE InsertAll(Insert(map, Head(devices).id, Head(devices)), Tail(devices))

\* (mutant) the stored map is not cleared before the inserts
detect_usb_devices_merge(listing) ==
    /\ listed' = Some(listing)
    /\ IF listing[1] = "err"
       THEN /\ detected' = Some(<<"err", <<"USB enumeration failed: ",
                                           listing[2]>>>>)
            /\ UNCHANGED connected_devices
       ELSE LET devices == FoundIn(listing[2])
            IN  /\ connected_devices' = InsertAll(connected_devices, devices)
                /\ detected' = Some(<<"ok", devices>>)
    /\ UNCHANGED <<registry, events, written, startVars, taskVars, procVars,
                   cancelVars, lockVars, inputs>>

\* detect_usb_devices: listing is the result of rusb::devices(), <<"ok", list>>
\* or <<"err", e>>; the Err returns before the stored map is touched
detect_usb_devices(listing) ==
    /\ listed' = Some(listing)
    /\ IF listing[1] = "err"
       THEN /\ detected' = Some(<<"err", <<"USB enumeration failed: ",
                                           listing[2]>>>>)
            /\ UNCHANGED connected_devices
       ELSE LET devices == FoundIn(listing[2])
            IN  /\ connected_devices' = InsertAll(<<>>, devices)
                /\ detected' = Some(<<"ok", devices>>)
    /\ UNCHANGED <<registry, events, written, startVars, taskVars, procVars,
                   cancelVars, lockVars, inputs>>

Listings ==
    {<<"ok", l>> : l \in DeviceLists} \cup {<<"err", e>> : e \in UsbErrors}

DeviceNext == \E listing \in Listings : detect_usb_devices(listing)

DeviceSpec == Init /\ [][DeviceNext]_vars

(***************************************************************************)
(* The locking of the two job maps.  Each function that touches a map is   *)
(* written out as the sequence of its lock operations and of the points    *)
(* between them: a guard taken by lock(), the end of the guard's scope, an *)
(* .await where the future can be suspended, and synchronous code.         *)
(***************************************************************************)

\* worker threads of the async runtime that polls the commands and the tasks
MaxWorkers == 2

\* instructions; next is the set of positions control can go to afterwards
Lock(m, next) == [op |-> "lock", m |-> m, next |-> next]
Unlock(m, next) == [op |-> "unlock", m |-> m, next |-> next]
Await(next) == [op |-> "await", m |-> "", next |-> next]
Run(next) == [op |-> "run", m |-> "", next |-> next]
SpawnTask(next) == [op |-> "spawn", m |-> "", next |-> next]
Unspawned == [op |-> "idle", m |-> "", next |-> {}]
Return == [op |-> "return", m |-> "", next |-> {}]

\* start_flash_process: the insert of the preparing snapshot in its own block,
\* then the emit (whose Err returns), then tokio::spawn and Ok(flash_id)
start_flash_process_locks ==
    << Await({2}),                      \* the invocation, until it is polled
       Lock("flash_progress", {3}),
       Unlock("flash_progress", {4}),
       Run({5, 6}),                     \* window.emit(..)?
       SpawnTask({6}),
       Return >>

\* the spawned task: execute_flash_process, with update_flash_progress inlined
\* at its three call sites, and the Err arm of the spawned closure (22, 23)
execute_flash_process_locks ==
    << Unspawned,
       Await({3}),                      \* spawned, until first polled
       Lock("flash_progress", {4}),     \* update_flash_progress: downloading
       Unlock("flash_progress", {5}),
       Run({6, 22}),                    \* window.emit(..)?
       Await({7, 22}),                  \* get_script_path, get_working_directory
       Run({8, 22}),                    \* cmd.spawn()?
       Lock("active_flashes", {9}),     \* store the child
       Unlock("active_flashes", {10}),
       Await({11, 14}),                 \* lines.next_line().await
       Lock("flash_progress", {12}),    \* update_flash_progress: parsed line
       Unlock("flash_progress", {13}),
       Run({10, 22}),                   \* window.emit(..)?
       Lock("active_flashes", {15}),    \* retrieve the child
       Unlock("active_flashes", {16, 22}),
       Await({17, 22}),                 \* child.wait().await
       Lock("flash_progress", {18}),    \* update_flash_progress: complete
       Unlock("flash_progress", {19}),
       Run({20, 22}),                   \* window.emit(..)?
       Lock("active_flashes", {21}),    \* clean up
       Unlock("active_flashes", {24}),
       Lock("flash_progress", {23}),    \* Err arm: the error snapshot
       Unlock("flash_progress", {24}),
       Return >>

\* (mutant) the active_flashes guard is not scoped in a block of its own: it
\* lives until the function returns
cancel_flash_process_locks_unscoped ==
    << Await({2}),
       Lock("active_flashes", {3, 4}),
       Await({4}),
       Lock("flash_progress", {5}),
       Unlock("flash_progress", {6}),
       Unlock("active_flashes", {7}),
       Return >>

\* cancel_flash_process: the removal of the handle in its own block, the kill
\* of a handle that was there, then the flash_progress guard that lives until
\* the function returns
cancel_flash_process_locks ==
    << Await({2}),                      \* the invocation, until it is polled
       Lock("active_flashes", {3}),
       Unlock("active_flashes", {4, 5}),
       Await({5}),                      \* child.kill().await
       Lock("flash_progress", {6}),
       Unlock("flash_progress", {7}),   \* the guard is dropped at the return
       Return >>

\* get_flash_progress: one guard, dropped at the return
get_flash_progress_locks ==
    << Await({2}),                      \* the invocation, until it is polled
       Lock("flash_progress", {3}),
       Unlock("flash_progress", {4}),
       Return >>

Code(t) ==
    CASE t[1] = "start_flash_process" -> start_flash_process_locks
      [] t[1] = "execute_flash_process" -> execute_flash_process_locks
      [] t[1] = "cancel_flash_process" -> cancel_flash_process_locks
      [] t[1] = "get_flash_progress" -> get_flash_progress_locks

Instr(t) == Code(t)[threadPc[t]]

\* the guards a thread holds
Holding(t) == {m \in Mutexes : holder[m] = t}

\* a thread occupies a worker while it runs: not before it is polled, not
\* while it is suspended at an .await, not after it returned
OnWorker(t) == Instr(t).op \in {"lock", "unlock", "run", "spawn"}

FreeWorker == Cardinality({t \in Threads : OnWorker(t)}) < MaxWorkers

Goto(t) == \E n \in Instr(t).next : threadPc' = [threadPc EXCEPT ![t] = n]

jobVars == <<registry, events, written, startVars, taskVars, procVars,
             cancelVars, deviceVars, inputs>>

\* Mutex::lock: blocks the worker until the Mutex is free (std::sync::Mutex
\* is not reentrant: the holder itself blocks too)
Acquire(t) ==
    /\ Instr(t).op = "lock"
    /\ holder[Instr(t).m] = Free
    /\ holder' = [holder EXCEPT ![Instr(t).m] = t]
    /\ Goto(t)
    /\ UNCHANGED jobVars

\* the MutexGuard goes out of scope
Release(t) ==
    /\ Instr(t).op = "unlock"
    /\ holder[Instr(t).m] = t
    /\ holder' = [holder EXCEPT ![Instr(t).m] = Free]
    /\ Goto(t)
    /\ UNCHANGED jobVars

\* a future that is ready is polled again once a worker is free
Resume(t) ==
    /\ Instr(t).op = "await"
    /\ FreeWorker
    /\ Goto(t)
    /\ UNCHANGED <<jobVars, holder>>

\* synchronous code between the lock operations
Proceed(t) ==
    /\ Instr(t).op = "run"
    /\ Goto(t)
    /\ UNCHANGED <<jobVars, holder>>

\* tokio::spawn: the task of the same job becomes runnable
Spawn(t) ==
    /\ Instr(t).op = "spawn"
    /\ \E n \in Instr(t).next :
          threadPc' = [threadPc EXCEPT
                          ![t] = n, ![<<"execute_flash_process", t[2]>>] = 2]
    /\ UNCHANGED <<jobVars, holder>>

Step(t) == Acquire(t) \/ Release(t) \/ Resume(t) \/ Proceed(t) \/ Spawn(t)

LockNext ==
    \E t \in Threads :
        \/ Acquire(t)
        \/ Release(t)
        \/ Resume(t)
        \/ Proceed(t)
        \/ Spawn(t)

LockSpec == Init /\ [][LockNext]_vars

(***************************************************************************)
(* What a caller observes of a job.                                        *)
(***************************************************************************)
HasSnapshot(id) == id \in DOMAIN flash_progress
HasHandle(id) == id \in DOMAIN active_flashes
Stage(id) == IF HasSnapshot(id) THEN flash_progress[id].stage ELSE "absent"
Terminal(id) == Stage(id) \in {"complete", "error"}
NeverCancelled(id) == cancelled[id].count = 0 /\ cancelPc[id] = "idle"
Published(id, progress) ==
    \E i \in DOMAIN events[id] : events[id][i].progress = Some(progress)
Contains(text, piece) == \E i \in DOMAIN text : text[i] = piece

(***************************************************************************)
(* C1.  A cancel call that began while the job's stage was "flashing",     *)
(* with the handle registered and the subprocess alive, leaves, once it    *)
(* has returned, no handle and no snapshot for the job, and every later    *)
(* query returns None.                                                     *)
(***************************************************************************)
C1_CancelWhileFlashing ==
    \A id \in JobIds :
        cancelled[id].flashing =>
            /\ ~HasHandle(id)
            /\ ~HasSnapshot(id)
            /\ QueryResult(id) = None

(***************************************************************************)
(* C2.  Once a cancel call that began after start_flash_process returned   *)
(* the id has itself returned, the job's subprocess is not alive, then or  *)
(* at any later time.                                                      *)
(***************************************************************************)
C2_CancelAlwaysEffective ==
    \A id \in JobIds : cancelled[id].after_start => ~Alive(id)

(***************************************************************************)
(* C3.  A job whose snapshot is "complete" or "error" has no entry in      *)
(* active_flashes.                                                         *)
(***************************************************************************)
C3_NoHandleOnceTerminal ==
    \A id \in JobIds : Terminal(id) => ~HasHandle(id)

(***************************************************************************)
(* C4.  After the second of two successive cancel calls on a job has       *)
(* returned, the job has no snapshot and no handle.                        *)
(***************************************************************************)
C4_CancelTwice ==
    \A id \in JobIds :
        (cancelled[id].count >= 2 /\ cancelPc[id] = "idle") =>
            ~HasSnapshot(id) /\ ~HasHandle(id)

(***************************************************************************)
(* C5.  An id that start_flash_process never returned is unknown to the    *)
(* registry: a query on it returns None, a cancel on it returns without    *)
(* killing anything and leaves both maps as they were; and no query, on    *)
(* any id, changes either map.  Unknown(id) says which ids are meant.      *)
(***************************************************************************)
NeverGenerated(id) == id \notin 1..generated
NeverReturned(id) == id \notin JobIds \/ startPc[id] \in {"none", "failed"}

\* as claimed: every id that no start_flash_process call returned
C5_NeverReturnedIds ==
    [][\A id \in AnyIds :
          /\ NeverReturned(id)' => QueryResult(id)' = None
          /\ get_flash_progress(id) => UNCHANGED registry
          /\ (NeverReturned(id) /\ cancelPc'[id] # cancelPc[id]) =>
                 UNCHANGED registry /\ cancelPc'[id] # "kill"]_vars

\* as amended: every id that no start_flash_process call generated
C5_NeverGeneratedIds ==
    [][\A id \in AnyIds :
          /\ NeverGenerated(id)' => QueryResult(id)' = None
          /\ get_flash_progress(id) => UNCHANGED registry
          /\ (NeverGenerated(id) /\ cancelPc'[id] # cancelPc[id]) =>
                 UNCHANGED registry /\ cancelPc'[id] # "kill"]_vars

\* a cancel on the never generated id 0 has returned while job 1 is running
C5_Witness ==
    cancelled[0].count >= 1 /\ HasSnapshot(1) /\ HasHandle(1)

(***************************************************************************)
(* C6.  A job that was never cancelled, none of whose emits failed and     *)
(* whose subprocess exited with code 0 ends with the snapshot "complete"   *)
(* at 100 %, with that snapshot published and with no handle left.         *)
(***************************************************************************)
EmitFailed(id) == startPc[id] = "failed" \/ taskErr[id] = Some(EmitError)

C6_ExitZeroCompletes ==
    \A id \in JobIds :
        (/\ taskPc[id] = "done"
         /\ NeverCancelled(id)
         /\ ~EmitFailed(id)
         /\ exit_status[id] = Exited(0)) =>
            /\ Stage(id) = "complete"
            /\ flash_progress[id].progress = 1000
            /\ Published(id, flash_progress[id])
            /\ ~HasHandle(id)

\* such a job has ended after some line of its output was parsed
C6_Witness ==
    \E id \in JobIds :
        /\ taskPc[id] = "done"
        /\ NeverCancelled(id)
        /\ exit_status[id] = Exited(0)
        /\ Stage(id) = "complete"
        /\ Len(written[id]) >= 4

(***************************************************************************)
(* C7.  A job that was never cancelled and whose subprocess exited with a  *)
(* code other than 0 (or without a code, reported as -1) ends with the     *)
(* snapshot "error" at 0 % whose details contain the code, and with no     *)
(* handle left.                                                            *)
(***************************************************************************)
C7_NonZeroExitIsError ==
    \A id \in JobIds :
        (/\ taskPc[id] = "done"
         /\ NeverCancelled(id)
         /\ exit_status[id] \in {Exited(c) : c \in ExitCodes \ {0}} \cup {Signalled}) =>
            /\ Stage(id) = "error"
            /\ flash_progress[id].progress = 0
            /\ flash_progress[id].details # None
            /\ Contains(flash_progress[id].details[1],
                        CodeStr(CodeOr(exit_status[id])))
            /\ ~HasHandle(id)

(***************************************************************************)
(* C8.  When the script path is not found or the spawn fails, no handle is *)
(* ever registered and no subprocess exists for the job, its task ends by  *)
(* writing an "error" snapshot that a query returns, and the calls of      *)
(* other jobs stay available.                                              *)
(***************************************************************************)
ToolFailed(id) == taskErr[id] \in {Some(ScriptNotFound), Some(SpawnError)}

\* start, query and cancel are not held up for the ids other than id
Serving(id) ==
    /\ (generated < MaxJobs /\ Fits(1)) =>
           ENABLED (\E command \in Commands : StartFlash(command))
    /\ \A k \in CallerIds \ {id} :
           /\ ENABLED get_flash_progress(k)
           /\ (cancelPc[k] = "idle" /\ Fits(1)) => ENABLED CancelTake(k)
           /\ cancelPc[k] = "kill" => ENABLED CancelKill(k)
           /\ cancelPc[k] = "remove" => ENABLED CancelRemove(k)

C8_ToolFailureIsError ==
    [][\A id \in JobIds :
          /\ ToolFailed(id) =>
                 /\ ~registered[id] /\ ~HasHandle(id) /\ proc[id] = "none"
                 /\ Serving(id)
          /\ (ToolFailed(id) /\ taskPc[id] = "failed" /\ taskPc'[id] = "done") =>
                 /\ QueryResult(id)' = Some(ErrorProgress(taskErr[id][1]))
                 /\ ~HasHandle(id)']_vars

\* job 1 ended in "error" for a missing script and job 2 ran to "complete"
C8_Witness ==
    /\ taskErr[1] = Some(ScriptNotFound)
    /\ taskPc[1] = "done" /\ Stage(1) = "error"
    /\ taskPc[2] = "done" /\ Stage(2) = "complete"

(***************************************************************************)
(* C9.  Every job whose task ended with the snapshot "error" has published *)
(* an event that carries this snapshot.                                    *)
(***************************************************************************)
C9_ErrorsPublished ==
    \A id \in JobIds :
        (taskPc[id] = "done" /\ Stage(id) = "error") =>
            Published(id, flash_progress[id])

(***************************************************************************)
(* C10.  The first snapshot written for a job is "preparing" at 0 %, it is *)
(* written before the task writes anything and before the call returns the *)
(* id, and the return waits for nothing: it is possible whatever the state *)
(* of the task and of the subprocess.                                      *)
(***************************************************************************)
C10_PreparingFirst ==
    \A id \in JobIds :
        /\ written[id] # <<>> =>
               written[id][1].stage = "preparing" /\ written[id][1].progress = 0
        /\ (HasSnapshot(id) \/ startPc[id] # "none" \/ taskPc[id] # "none") =>
               written[id] # <<>>
        /\ startPc[id] = "return" => ENABLED StartReturn(id)

\* the call has returned the id and the task has not run yet
C10_Witness ==
    \E id \in JobIds :
        startPc[id] = "returned" /\ taskPc[id] = "start" /\ proc[id] = "none"

(***************************************************************************)
(* C11.  The placeholder snapshot "downloading" at 10 % with the estimate  *)
(* of 300 s is written and published only once the job's subprocess has    *)
(* been spawned, and before any line of its output is consumed; a job      *)
(* whose snapshot is "downloading" has a subprocess.                       *)
(***************************************************************************)
Placeholder(id) == DownloadingProgress(request[id][1])
WasWritten(id, progress) ==
    \E i \in DOMAIN written[id] : written[id][i] = progress

C11_DownloadingAfterSpawn ==
    \A id \in JobIds :
        /\ Stage(id) = "downloading" => proc[id] # "none"
        /\ (request[id] # None /\ WasWritten(id, Placeholder(id))) =>
               proc[id] # "none"
        /\ output[id] # <<>> =>
               /\ WasWritten(id, Placeholder(id))
               /\ Published(id, Placeholder(id))

(***************************************************************************)
(* C12.  For one job, the snapshots written while its output is streamed,  *)
(* and the events published for them, are the parser's results for the     *)
(* matching lines, in the order of the lines: none lost, none twice, none  *)
(* out of order; and while the task streams, no one else writes a snapshot *)
(* for the job.  StreamWritten and StreamEvents are the snapshots and the  *)
(* event payloads after the two initial ones, without the final "complete" *)
(* or "error".                                                             *)
(***************************************************************************)
RECURSIVE ParsedSeq(_)
ParsedSeq(lines) ==
    IF lines = <<>> THEN <<>>
    ELSE LET r == parse_flash_output(Head(lines))
         IN  (IF r = None THEN <<>> ELSE <<r[1]>>) \o ParsedSeq(Tail(lines))

StreamStages == {"downloading", "flashing", "verifying"}
InStream(progress) == progress.stage \in StreamStages
StreamWritten(id) ==
    SelectSeq(SubSeq(written[id], 3, Len(written[id])), InStream)
StreamEvents(id) ==
    LET later == SubSeq(events[id], 3, Len(events[id]))
    IN  SelectSeq([i \in DOMAIN later |-> later[i].progress[1]], InStream)

Front(seq) == SubSeq(seq, 1, Len(seq) - 1)

\* while the task of id streams, a step that puts a new snapshot of id into
\* flash_progress is the task's own step on a line
SingleWriter(id) ==
    (/\ taskPc[id] = "read"
     /\ HasSnapshot(id)'
     /\ Get(flash_progress, id)' # Get(flash_progress, id)) =>
        \E line \in OutputLines : ExecReadLine(id, line)

\* as claimed: the events too are the results for all the matching lines
C12_StreamInOrder ==
    [][\A id \in JobIds :
          /\ StreamWritten(id)' = ParsedSeq(output'[id])
          /\ StreamEvents(id)' = ParsedSeq(output'[id])
          /\ SingleWriter(id)]_vars

\* as amended: the event of the last matching line is missing when its emit
\* failed, which ends the streaming
C12_StreamInOrderUnlessEmitFails ==
    [][\A id \in JobIds :
          /\ StreamWritten(id)' = ParsedSeq(output'[id])
          /\ \/ StreamEvents(id)' = ParsedSeq(output'[id])
             \/ /\ taskErr'[id] = Some(EmitError)
                /\ parse_flash_output(output'[id][Len(output'[id])]) # None
                /\ StreamEvents(id)' = Front(ParsedSeq(output'[id]))
          /\ SingleWriter(id)]_vars

\* a job has streamed two matching lines of different stages and published
\* both
C12_Witness ==
    \E id \in JobIds :
        /\ Len(StreamWritten(id)) = 2
        /\ StreamWritten(id)[1].stage # StreamWritten(id)[2].stage
        /\ StreamEvents(id) = StreamWritten(id)

(***************************************************************************)
(* C13.  The stage of a job's snapshot only moves forward along preparing, *)
(* downloading, flashing, verifying, complete, or to error from a stage    *)
(* that is not terminal: whatever lines the subprocess prints, no step     *)
(* replaces a snapshot by one of an earlier stage.                         *)
(***************************************************************************)
StageOrder == <<"preparing", "downloading", "flashing", "verifying", "complete">>
Rank(stage) == CHOOSE i \in DOMAIN StageOrder : StageOrder[i] = stage

Forward(from, to) ==
    IF to = "error" THEN from \notin {"complete", "error"}
    ELSE from # "error" /\ Rank(from) <= Rank(to)

C13_StageOnlyForward ==
    [][\A id \in JobIds :
          (HasSnapshot(id) /\ HasSnapshot(id)' /\
           flash_progress'[id] # flash_progress[id]) =>
              Forward(Stage(id), Stage(id)')]_vars

(***************************************************************************)
(* C14.  Every snapshot's progress is within 0 % .. 100 %; a snapshot in   *)
(* stage "downloading" has its progress within 0 % .. 30 %, "flashing"     *)
(* within 30 % .. 90 %, "verifying" within 90 % .. 100 %, whatever the     *)
(* subprocess prints, a percentage above 100 included.  (Tenths of a       *)
(* percent.)                                                               *)
(***************************************************************************)
InRange(progress) ==
    /\ progress.progress \in 0..1000
    /\ progress.stage = "downloading" => progress.progress \in 0..300
    /\ progress.stage = "flashing" => progress.progress \in 300..900
    /\ progress.stage = "verifying" => progress.progress \in 900..1000

C14_ProgressInRange ==
    \A id \in DOMAIN flash_progress : InRange(flash_progress[id])

(***************************************************************************)
(* C15.  For a line that matches the download pattern, with the integer p  *)
(* as its percentage, the parser yields "downloading" at 0.3 p; for a line *)
(* that matches the flashing pattern only, "flashing" at 30 + 0.6 p; for a *)
(* line that matches the verifying pattern only, "verifying" at            *)
(* 90 + 0.1 p.  (Tenths of a percent: 3 p, 300 + 6 p, 900 + p.)            *)
(***************************************************************************)
\* the integer that a run of decimal digits denotes
IntegerOf(tok) ==
    CASE tok = "0" -> 0
      [] tok = "42" -> 42
      [] tok = "50" -> 50
      [] tok = "100" -> 100
      [] tok = "150" -> 150
      [] tok = "arabic-indic-42" -> 42

Matches(word, line) == Captures(word, line) # None
Percent(word, line) == IntegerOf(Captures(word, line)[1])
Yields(line, stage, progress) ==
    /\ parse_flash_output(line) # None
    /\ parse_flash_output(line)[1].stage = stage
    /\ parse_flash_output(line)[1].progress = progress

C15_LinearLaws ==
    output[1] # <<>> =>
        LET line == output[1][1]
        IN  /\ Matches("Downloading", line) =>
                   Yields(line, "downloading", 3 * Percent("Downloading", line))
            /\ (/\ Matches("Flashing", line)
                /\ ~Matches("Downloading", line)
                /\ ~Matches("Verifying", line)) =>
                   Yields(line, "flashing", 300 + 6 * Percent("Flashing", line))
            /\ (/\ Matches("Verifying", line)
                /\ ~Matches("Downloading", line)
                /\ ~Matches("Flashing", line)) =>
                   Yields(line, "verifying", 900 + Percent("Verifying", line))

(***************************************************************************)
(* C16.  A line that matches more than one of the three patterns gets the  *)
(* result of the first of them in the order download, flash, verify, with  *)
(* the percentage that this pattern captured: download and flash (or       *)
(* verify) yields "downloading", flash and verify yields "flashing".       *)
(***************************************************************************)
C16_FirstPatternWins ==
    output[1] # <<>> =>
        LET line == output[1][1]
        IN  /\ (/\ Matches("Downloading", line)
                /\ Matches("Flashing", line) \/ Matches("Verifying", line)) =>
                   Yields(line, "downloading", 3 * Percent("Downloading", line))
            /\ (/\ ~Matches("Downloading", line)
                /\ Matches("Flashing", line)
                /\ Matches("Verifying", line)) =>
                   Yields(line, "flashing", 300 + 6 * Percent("Flashing", line))

(***************************************************************************)
(* C17.  A line that matches none of the three patterns has no parser      *)
(* result, and the step that consumes it leaves the snapshot of every job, *)
(* the handles and the published events as they were.                      *)
(***************************************************************************)
NoPattern(line) ==
    /\ ~Matches("Downloading", line)
    /\ ~Matches("Flashing", line)
    /\ ~Matches("Verifying", line)

C17_NonMatchingLineIgnored ==
    [][\A id \in JobIds :
          output'[id] # output[id] =>
              LET line == output'[id][Len(output'[id])]
              IN  NoPattern(line) =>
                      /\ parse_flash_output(line) = None
                      /\ UNCHANGED <<flash_progress, active_flashes, events>>]_vars

\* job 1 consumed a line with a percentage and no stage word, and a stage
\* word with no percentage after it
C17_Witness ==
    /\ output[1] = <<<<"42", "%", "Flashing", "partition">>>>
    /\ flash_progress[1].stage = "downloading"
    /\ flash_progress[2].stage = "preparing"
    /\ 1 \in DOMAIN active_flashes

(***************************************************************************)
(* C18.  A step of job A (a step of its start_flash_process call, of its   *)
(* background task, of its subprocess, or of a cancel call on A) leaves    *)
(* the snapshot, the handle and the subprocess of every other job B as     *)
(* they were, whatever the interleaving of the jobs.                       *)
(***************************************************************************)
StepOf(a) ==
    \/ startPc'[a] # startPc[a]
    \/ taskPc'[a] # taskPc[a]
    \/ output'[a] # output[a]
    \/ proc'[a] # proc[a]
    \/ cancelPc'[a] # cancelPc[a]

Entry(b) == <<Get(flash_progress, b), Get(active_flashes, b), proc[b]>>

C18_JobsIsolated ==
    [][\A a \in JobIds : \A b \in JobIds \ {a} :
          StepOf(a) => Entry(b)' = Entry(b)]_vars

\* job 1 was cancelled and its task has ended while job 2 is streaming
C18_Witness ==
    /\ cancelled[1].count = 1 /\ taskPc[1] = "done"
    /\ taskPc[2] = "read" /\ HasSnapshot(2) /\ HasHandle(2)

(***************************************************************************)
(* C19.  After a successful enumeration connected_devices holds exactly    *)
(* the devices found in that pass, nothing of an earlier pass and nothing  *)
(* merged; an enumeration that finds no matching device returns Ok with an *)
(* empty list and leaves the stored map empty; a failed enumeration        *)
(* returns an error and leaves the stored map as it was.                   *)
(***************************************************************************)
IsJetson(dev) ==
    /\ dev.descriptor
    /\ dev.vendor_id = jetson_vendor_id
    /\ \E i \in DOMAIN jetson_products : jetson_products[i][1] = dev.product_id

Range(seq) == {seq[i] : i \in DOMAIN seq}

C19_EnumerationReplaces ==
    [][listed' # None =>
          LET listing == listed'[1]
          IN  IF listing[1] = "ok"
              THEN LET jetsons == {dev \in Range(listing[2]) : IsJetson(dev)}
                       found == detected'[1][2]
                   IN  /\ detected'[1][1] = "ok"
                       /\ Len(found) = Cardinality(jetsons)
                       /\ {found[i].id : i \in DOMAIN found} =
                              {DeviceId(dev) : dev \in jetsons}
                       /\ DOMAIN connected_devices' =
                              {found[i].id : i \in DOMAIN found}
                       /\ \A i \in DOMAIN found :
                              connected_devices'[found[i].id] = found[i]
                       /\ jetsons = {} =>
                              found = <<>> /\ connected_devices' = <<>>
              ELSE /\ detected'[1][1] = "err"
                   /\ UNCHANGED connected_devices]_vars

\* an enumeration has failed after one that stored two devices
C19_Witness ==
    /\ detected # None /\ detected[1][1] = "err"
    /\ Cardinality(DOMAIN connected_devices) = 2
    /\ \E id \in DOMAIN connected_devices :
           connected_devices[id].usb_info[1].is_recovery_mode

(***************************************************************************)
(* C20.  The handle of a job is taken out of active_flashes once: when the *)
(* task's removal at the end of the output and a cancel call race, one of  *)
(* them gets the Child and the other finds none, so the subprocess is      *)
(* never both killed by a cancel and waited on by the task; and the        *)
(* removal that finds no handle is a no-op, not an error.                  *)
(***************************************************************************)
\* the task got the Child from active_flashes.remove (it went on to wait)
TaskTook(id) ==
    \/ taskPc[id] \in {"wait", "cleanup"}
    \/ WasWritten(id, CompleteProgress)
    \/ taskErr[id] \in {Some(WaitError)} \cup
                       {Some(ExitError(c)) : c \in ExitCodes \cup {-1}}

\* a cancel call got the Child from active_flashes.remove (it went on to kill)
CancelTook(id) == cancelCtx[id].handle \/ cancelled[id].took

C20_HandleTakenOnce ==
    \A id \in JobIds :
        /\ ~(TaskTook(id) /\ CancelTook(id))
        /\ taskErr[id] # Some(ProcessNotFound)

(***************************************************************************)
(* C21.  The terminal stages are absorbing: no step replaces a "complete"  *)
(* snapshot by a snapshot of another stage, nor an "error" snapshot by one *)
(* of another stage; the only change left is the removal by cancel.  This  *)
(* is so too when the emit of the "complete" snapshot fails.               *)
(***************************************************************************)
C21_TerminalAbsorbing ==
    [][\A id \in JobIds :
          (Terminal(id) /\ HasSnapshot(id)') =>
              /\ Stage(id)' = Stage(id)
              /\ flash_progress'[id] = flash_progress[id]]_vars

(***************************************************************************)
(* C22.  Every snapshot that start_flash_process inserts becomes terminal  *)
(* ("complete" or "error") or is removed by a cancel, given that a spawned *)
(* subprocess closes its output and exits: no job keeps a snapshot that is *)
(* not terminal for ever, the job whose first emit failed included.        *)
(***************************************************************************)
C22_EventuallyTerminal ==
    \A id \in JobIds :
        HasSnapshot(id) ~> (Terminal(id) \/ ~HasSnapshot(id))

(***************************************************************************)
(* C23.  Every job id in active_flashes is in flash_progress too: no       *)
(* handle is registered for, or left behind for, a job whose snapshot a    *)
(* cancel has removed.                                                     *)
(***************************************************************************)
C23_HandleHasSnapshot ==
    DOMAIN active_flashes \subseteq DOMAIN flash_progress

\* a thread that has begun and has not returned
Live(t) == Instr(t).op \notin {"idle", "return"}

\* what a thread that cannot step is waiting for: the holder of the Mutex it
\* locks, or, suspended with every worker taken, the threads on the workers
WaitsFor(t) ==
    IF Instr(t).op = "lock" THEN {u \in Threads : holder[Instr(t).m] = u}
    ELSE {u \in Threads : OnWorker(u)}

\* C24: no thread locks a job map while it holds a guard (of the other map or
\* of the same one), no thread holds a guard while it is suspended at an
\* .await or after it returned, and so no thread is ever stuck: a thread that
\* cannot take its next step waits for a thread that can take its own
C24_NoRegistryDeadlock ==
    /\ \A t \in Threads : Instr(t).op = "lock" => Holding(t) = {}
    /\ \A t \in Threads : Cardinality(Holding(t)) <= 1
    /\ \A t \in Threads : ~OnWorker(t) => Holding(t) = {}
    /\ \A t \in Threads :
          (Live(t) /\ ~ENABLED Step(t)) =>
              \E u \in WaitsFor(t) : ENABLED Step(u)

\* witness for C24: one thread is blocked in lock() on a map whose guard
\* another thread holds, while a third is suspended with no worker free
C24_Witness ==
    \E t, u, w \in Threads :
        /\ Instr(t).op = "lock"
        /\ holder[Instr(t).m] = u
        /\ u # t
        /\ Instr(w).op = "await"
        /\ w[1] = "execute_flash_process"
        /\ ~ENABLED Resume(w)

====
